---- MODULE Spec2Model ----
(***************************************************************************)
(* Payment lifecycle of the Discord storefront bot: PIX payments           *)
(* (src/src/payment/pix.js), the product catalog (src/src/bot/admin.js,    *)
(* src/src/product/lzt.js), the loyalty ledger (src/src/audit/logger.js),  *)
(* the scheduled expiry job (src/unnamed/part_007), the promotions and the *)
(* audit log (src/src/audit/logger.js).                                    *)
(*                                                                         *)
(* Every handler is an async function: between two awaits on the database  *)
(* another handler may run.  A handler is therefore modelled as a call     *)
(* slot that moves through one action per database round trip, working on *)
(* the document it read; save() writes only the paths the handler          *)
(* assigned (mongoose sends a $set of the modified paths).                 *)
(*                                                                         *)
(* Time is counted in units of config.payment.expiration (1800 s).         *)
(***************************************************************************)
EXTENDS Integers, Sequences, FiniteSets, TLC

\* ---------------------------------------------------------------- bounds
MaxPayments == 1
\* payments in the approval-only specification
MaxCheckouts == 2
MaxProducts == 1
MaxCalls == 2
MaxTime == 2
\* loyalty transactions kept per account in the loyalty specification
MaxTx == 3
\* expiry periods the clock may pass in the loyalty specification
MaxPeriods == 1
\* promotions created in the administration specification
MaxPromos == 1
\* promotions created in the pricing and listing specifications
MaxListed == 2

\* ------------------------------------------------------ program constants
\* config.payment.expiration, in time units of 1800 s
expiration == 1
\* config.marketing.loyaltyPoints.expirationDays
expirationDays == 90
\* time units (1800 s) per day
UnitsPerDay == 48

\* config.marketing.discountLimits, in percent
discountMin == 5
discountMax == 50
\* config.marketing.promotionTypes
promotionTypes == {"flash", "season", "combo", "limited"}
\* time units (1800 s) per hour
UnitsPerHour == 2

\* transactions written by usePoints and _processExpiredPoints expire after 365 days
NeverDays == 365
Users == {"u1", "u2"}
Admins == {"admin1", "admin2"}
Calls == 1..MaxCalls
\* payment amounts in cents: 1.50
Amounts == {150}
Reasons == {"fraude"}
LztIds == {"lzt1"}
LztStatuses == {"available", "sold"}

\* points passed to addPoints and usePoints (0 is the invalid amount)
AddAmounts == {0, 499, 500, 1500, 4500, 5000}
UseAmounts == {0, 400, 1500}

None == "none"
NoTime == -1
\* a product id no document has (Product.findById yields null)
NoSuchProduct == 0
\* metadata.paymentId of a loyalty transaction not linked to a payment
NoPayment == 0

\* status enum of the flat Payment model
OldStatuses == {"PENDING", "COMPLETED", "REJECTED", "EXPIRED"}
\* status enum of the nested Payment model
NewStatuses ==
  {"PENDING", "PROCESSING", "COMPLETED", "FAILED", "REFUNDED", "CANCELLED", "EXPIRED"}

\* A call slot: op and pc say which handler runs and where it stands; pid, who,
\* reason and arg are its arguments; seen is what it read (the status of the payment
\* document, the list of active promotions); todo is the list the expiry job still
\* has to process; result and ret are what the handler returned.
VARIABLES
  hasPixDetails,  \* Payment.schema.obj.pixDetails: TRUE iff the build registers the nested Payment model
  payments,       \* the payments collection, a sequence indexed by _id
  products,       \* the products collection, a sequence indexed by _id
  loyalty,        \* the loyalty collection, one document per userId at most
  profiles,       \* the userIds that have a user profile document
  calls,          \* the handler invocations in flight
  now,            \* the clock
  approveOk,      \* per payment: how many approvePayment calls returned success
  soldWrites,     \* per product: how many times approvePayment saved it as sold
  cache,          \* the product cache: per product id the cached copy, or NotCached
  audit,          \* the audit log collection, in insertion order
  promotions,     \* the promotions collection, a sequence indexed by _id
  promoCache      \* the cache entry 'promotions:active': the cached list, or NoList

vars ==
  <<hasPixDetails, payments, products, loyalty, profiles, calls, now, approveOk, soldWrites,
    cache, audit, promotions, promoCache>>

PaymentIds == 1..MaxCheckouts
ProductIds == 1..MaxProducts

\* no entry under the product's cache key (cache.get yields null)
NotCached == [hit |-> FALSE, disponivel |-> FALSE, vendido |-> FALSE]

\* no entry under the key 'promotions:active' (cache.get yields null)
NoList == [hit |-> FALSE, list |-> <<>>]

Idle == [op |-> None, pc |-> "idle", pid |-> 0, who |-> None, reason |-> None,
         seen |-> None, todo |-> {}, result |-> None, ret |-> None, arg |-> None]

NoAccount == [exists |-> FALSE, totalPoints |-> 0, lifetimePoints |-> 0, level |-> 1,
              transactions |-> <<>>]

Init ==
  /\ hasPixDetails \in BOOLEAN
  /\ payments = <<>>
  /\ products = <<>>
  /\ loyalty = [u \in Users |-> NoAccount]
  /\ profiles = {}
  /\ calls = [c \in Calls |-> Idle]
  /\ now = 0
  /\ approveOk = [p \in PaymentIds |-> 0]
  /\ soldWrites = [p \in ProductIds |-> 0]
  /\ cache = [p \in ProductIds |-> NotCached]
  /\ audit = <<>>
  /\ promotions = <<>>
  /\ promoCache = NoList

\* ------------------------------------------------------------- helpers

PaymentExists(pid) == pid \in 1..Len(payments)
ProductExists(prod) == prod \in 1..Len(products)

\* a product id a caller can pass: that of a stored product, or a dangling one
Referable(prod) == prod = NoSuchProduct \/ ProductExists(prod)

\* the enum validator of the status path, run by save()
ValidStatus(s) == IF hasPixDetails THEN s \in NewStatuses ELSE s \in OldStatuses

\* a new invocation takes the lowest free call slot
Free(c) == calls[c].pc = "idle" /\ \A d \in Calls : d < c => calls[d].pc # "idle"

Done(c, res) == [calls EXCEPT ![c] = [@ EXCEPT !.pc = "done", !.result = res]]

Floor(cents) == cents \div 100

\* ------------------------------------------------------------- audit log

\* the enum validators of AuditLogSchema (models/audit.js)
AuditCategories == {"USER", "PRODUCT", "TRANSACTION", "SECURITY", "INTEGRATION", "MARKETING", "AI"}
logLevels == {"info", "warning", "error", "critical"}
AuditStatuses == {"SUCCESS", "ERROR", "WARNING", "INFO", "BLOCKED"}

\* the logData an auditLogger.log call site passes (its status is always given)
LogData(action, category, severity, status) ==
  [action |-> action, category |-> category, severity |-> severity, status |-> status]

\* auditEntry.save() passes the schema validation
AuditValid(entry) ==
  /\ entry.category \in AuditCategories
  /\ entry.severity \in logLevels
  /\ entry.status \in AuditStatuses

\* log(logData): saves the entry; a save that throws is caught and the basic
\* AUDIT_ERROR entry is saved instead; when that save throws too nothing is stored.
\* Every call site of the payment, loyalty and promotion services passes its
\* severity in upper case ('INFO', 'WARNING'), so a handler whose action leaves
\* audit unchanged has stored nothing either.
log(entries, logData) ==
  LET basicLog == LogData("AUDIT_ERROR", "SYSTEM", "error", "ERROR")
  IN IF AuditValid(logData) THEN Append(entries, logData)
     ELSE IF AuditValid(basicLog) THEN Append(entries, basicLog)
     ELSE entries

\* ------------------------------------------------------------- loyalty

\* the level function with the thresholds themselves left in the lower level
_calculateLoyaltyLevelAbove(lifetimePoints) ==
  IF lifetimePoints > 10000 THEN 5
  ELSE IF lifetimePoints > 5000 THEN 4
  ELSE IF lifetimePoints > 2000 THEN 3
  ELSE IF lifetimePoints > 500 THEN 2
  ELSE 1

_calculateLoyaltyLevel(lifetimePoints) ==
  IF lifetimePoints >= 10000 THEN 5
  ELSE IF lifetimePoints >= 5000 THEN 4
  ELSE IF lifetimePoints >= 2000 THEN 3
  ELSE IF lifetimePoints >= 500 THEN 2
  ELSE 1

\* addPoints(userId, points, reason, {paymentId}): the loyalty collection afterwards.
\* The account is created only for a user that has a profile.
addPoints(loy, profs, userId, points, reason, paymentId) ==
  IF points <= 0 THEN loy
  ELSE IF ~loy[userId].exists /\ userId \notin profs THEN loy
  ELSE
    LET acc == loy[userId]
        tx == [amount |-> points, reason |-> reason, status |-> "ACTIVE",
               expiresAt |-> now + expirationDays * UnitsPerDay,
               relatedPaymentId |-> paymentId]
        life == acc.lifetimePoints + points
    IN [loy EXCEPT ![userId] =
          [exists |-> TRUE,
           totalPoints |-> acc.totalPoints + points,
           lifetimePoints |-> life,
           level |-> _calculateLoyaltyLevel(life),
           transactions |-> Append(acc.transactions, tx)]]

\* usePoints refusing also a request for the whole balance
usePointsBelowBalance(loy, userId, points, reason) ==
  IF points <= 0 THEN loy
  ELSE IF ~loy[userId].exists THEN loy
  ELSE IF loy[userId].totalPoints <= points THEN loy
  ELSE
    LET acc == loy[userId]
        tx == [amount |-> -points, reason |-> reason, status |-> "USED",
               expiresAt |-> now + NeverDays * UnitsPerDay,
               relatedPaymentId |-> NoPayment]
    IN [loy EXCEPT ![userId] =
          [acc EXCEPT !.totalPoints = acc.totalPoints - points,
                      !.transactions = Append(acc.transactions, tx)]]

\* usePoints(userId, points, reason): the loyalty collection afterwards
usePoints(loy, userId, points, reason) ==
  IF points <= 0 THEN loy
  ELSE IF ~loy[userId].exists THEN loy
  ELSE IF loy[userId].totalPoints < points THEN loy
  ELSE
    LET acc == loy[userId]
        tx == [amount |-> -points, reason |-> reason, status |-> "USED",
               expiresAt |-> now + NeverDays * UnitsPerDay,
               relatedPaymentId |-> NoPayment]
    IN [loy EXCEPT ![userId] =
          [acc EXCEPT !.totalPoints = acc.totalPoints - points,
                      !.transactions = Append(acc.transactions, tx)]]

\* whether usePoints(userId, points, ...) returns success
usePointsOk(loy, userId, points) ==
  points > 0 /\ loy[userId].exists /\ loy[userId].totalPoints >= points

\* the message of the result usePoints returns
usePointsMessage(loy, userId, points) ==
  IF points <= 0 THEN "Quantidade de pontos deve ser maior que zero"
  ELSE IF ~loy[userId].exists THEN "Usuário não possui pontos de fidelidade"
  ELSE IF loy[userId].totalPoints < points THEN "Saldo de pontos insuficiente"
  ELSE None

\* the message of the result addPoints returns
addPointsMessage(loy, profs, userId, points) ==
  IF points <= 0 THEN "Quantidade de pontos deve ser maior que zero"
  ELSE IF ~loy[userId].exists /\ userId \notin profs THEN "Usuário não encontrado"
  ELSE None

\* whether addPoints(userId, points, ...) returns success
addPointsOk(loy, profs, userId, points) ==
  points > 0 /\ (loy[userId].exists \/ userId \in profs)

RECURSIVE SumAmounts(_, _)
\* the sum of the amounts of the transactions txs[i], i in idx
SumAmounts(txs, idx) ==
  IF idx = {} THEN 0
  ELSE LET i == CHOOSE j \in idx : TRUE
       IN txs[i].amount + SumAmounts(txs, idx \ {i})

\* the transactions _processExpiredPoints marks: ACTIVE with expiresAt <= now
ExpiredTxs(acc) ==
  {i \in 1..Len(acc.transactions) :
     acc.transactions[i].status = "ACTIVE" /\ acc.transactions[i].expiresAt <= now}

\* the expiry sweep without the compensating EXPIRATION entry
_processExpiredPointsNoEntry(acc) ==
  LET idx == ExpiredTxs(acc)
      pointsExpired == SumAmounts(acc.transactions, idx)
      marked == [i \in 1..Len(acc.transactions) |->
                   IF i \in idx THEN [acc.transactions[i] EXCEPT !.status = "EXPIRED"]
                   ELSE acc.transactions[i]]
  IN IF pointsExpired > 0
       THEN [acc EXCEPT !.totalPoints = acc.totalPoints - pointsExpired,
                        !.transactions = marked]
       ELSE acc

\* the expiry sweep without the marking of the expired transactions
_processExpiredPointsUnmarked(acc) ==
  LET pointsExpired == SumAmounts(acc.transactions, ExpiredTxs(acc))
      tx == [amount |-> -pointsExpired, reason |-> "EXPIRATION", status |-> "USED",
             expiresAt |-> now + NeverDays * UnitsPerDay,
             relatedPaymentId |-> NoPayment]
  IN IF pointsExpired > 0
       THEN [acc EXCEPT !.totalPoints = acc.totalPoints - pointsExpired,
                        !.transactions = Append(acc.transactions, tx)]
       ELSE acc

\* _processExpiredPoints(loyalty): the account document afterwards
_processExpiredPoints(acc) ==
  LET idx == ExpiredTxs(acc)
      pointsExpired == SumAmounts(acc.transactions, idx)
      marked == [i \in 1..Len(acc.transactions) |->
                   IF i \in idx THEN [acc.transactions[i] EXCEPT !.status = "EXPIRED"]
                   ELSE acc.transactions[i]]
      tx == [amount |-> -pointsExpired, reason |-> "EXPIRATION", status |-> "USED",
             expiresAt |-> now + NeverDays * UnitsPerDay,
             relatedPaymentId |-> NoPayment]
  IN IF pointsExpired > 0
       THEN [acc EXCEPT !.totalPoints = acc.totalPoints - pointsExpired,
                        !.transactions = Append(marked, tx)]
       ELSE acc

\* ------------------------------------------------------------ payments

createPayment(userId, productId, amount) ==
  /\ payments' = Append(payments,
       [userId |-> userId, productId |-> productId, amount |-> amount,
        status |-> "PENDING", expiresAt |-> now + expiration,
        approvedBy |-> None, deliveryData |-> FALSE,
        rejectedAt |-> NoTime, rejectionReason |-> None, rejectedBy |-> None])
  /\ audit' = log(audit, LogData("PAYMENT_CREATED", "TRANSACTION", "INFO", "SUCCESS"))
  /\ UNCHANGED <<hasPixDetails, products, loyalty, profiles, calls, now, approveOk, soldWrites, cache, promotions, promoCache>>

\* ---- approvePayment (pix.js 470-606)

\* the status checks after Payment.findById
ApproveBlocked(status) == status \in {"COMPLETED", "REJECTED", "EXPIRED"}

\* the availability check on the product read by Product.findById
ProductUnavailable(prod) == ~prod.disponivel \/ prod.vendido

\* payment.status = 'REJECTED' ... await payment.save() inside approvePayment;
\* the enum validator makes save() throw when the model has no REJECTED status
ForceReject(pid, why) ==
  IF ValidStatus("REJECTED")
    THEN [payments EXCEPT ![pid] =
            [@ EXCEPT !.status = "REJECTED", !.rejectedAt = now, !.rejectionReason = why]]
    ELSE payments

\* the paths of the approval the registered model persists: the nested model has
\* no approvedBy and no deliveryData path, so save() drops them
PersistApproval(pay, adminId) ==
  IF hasPixDetails
    THEN [pay EXCEPT !.status = "COMPLETED"]
    ELSE [pay EXCEPT !.status = "COMPLETED", !.approvedBy = adminId, !.deliveryData = TRUE]

MarkSold(prod, userId) ==
  [prod EXCEPT !.vendido = TRUE, !.disponivel = FALSE, !.compradoPor = userId]

ApproveFind(c, pid, adminId) ==
  /\ Free(c)
  /\ calls' =
       IF ~PaymentExists(pid) \/ ApproveBlocked(payments[pid].status)
         THEN [calls EXCEPT ![c] = [Idle EXCEPT !.op = "approve", !.pid = pid,
                                      !.who = adminId, !.pc = "done", !.result = "fail"]]
         ELSE [calls EXCEPT ![c] = [Idle EXCEPT !.op = "approve", !.pid = pid,
                                      !.who = adminId, !.pc = "product",
                                      !.seen = payments[pid].status]]
  /\ UNCHANGED <<hasPixDetails, payments, products, loyalty, profiles, now, approveOk, soldWrites, cache, audit, promotions, promoCache>>

ApproveProduct(c) ==
  /\ calls[c].op = "approve" /\ calls[c].pc = "product"
  /\ LET pid == calls[c].pid
         prodId == payments[pid].productId
     IN IF ~ProductExists(prodId)
          THEN /\ payments' = ForceReject(pid, "Produto nao encontrado")
               /\ calls' = Done(c, IF ValidStatus("REJECTED") THEN "fail" ELSE "error")
          ELSE IF ProductUnavailable(products[prodId])
            THEN /\ payments' = ForceReject(pid, "Produto nao esta mais disponivel")
                 /\ calls' = Done(c, IF ValidStatus("REJECTED") THEN "fail" ELSE "error")
            ELSE /\ payments' = payments
                 /\ calls' = [calls EXCEPT ![c].pc = "savePayment"]
  /\ UNCHANGED <<hasPixDetails, products, loyalty, profiles, now, approveOk, soldWrites, cache, audit, promotions, promoCache>>

\* await payment.save(): ok = FALSE is a persistence failure, caught by the handler
ApproveSavePayment(c, ok) ==
  /\ calls[c].op = "approve" /\ calls[c].pc = "savePayment"
  /\ IF ok
       THEN /\ payments' = [payments EXCEPT ![calls[c].pid] = PersistApproval(@, calls[c].who)]
            /\ calls' = [calls EXCEPT ![c].pc = "saveProduct"]
       ELSE /\ payments' = payments
            /\ calls' = Done(c, "error")
  /\ UNCHANGED <<hasPixDetails, products, loyalty, profiles, now, approveOk, soldWrites, cache, audit, promotions, promoCache>>

\* await product.save(), then recordActivity (creates the profile when missing),
\* addPoints and the audit entry, none of which throws
ApproveSaveProduct(c, ok) ==
  /\ calls[c].op = "approve" /\ calls[c].pc = "saveProduct"
  /\ LET pid == calls[c].pid
         pay == payments[pid]
         prodId == pay.productId
     IN IF ok
          THEN /\ products' = [products EXCEPT ![prodId] = MarkSold(@, pay.userId)]
               /\ profiles' = profiles \cup {pay.userId}
               /\ loyalty' = addPoints(loyalty, profiles', pay.userId, Floor(pay.amount),
                                       "PURCHASE", pid)
               /\ approveOk' = [approveOk EXCEPT ![pid] = @ + 1]
               /\ soldWrites' = [soldWrites EXCEPT ![prodId] = @ + 1]
               /\ audit' = log(IF addPointsOk(loyalty, profiles', pay.userId, Floor(pay.amount))
                                  THEN log(audit, LogData("LOYALTY_POINTS_ADDED", "MARKETING",
                                                          "INFO", "SUCCESS"))
                                  ELSE audit,
                                LogData("PAYMENT_APPROVED", "TRANSACTION", "INFO", "SUCCESS"))
               /\ calls' = Done(c, "success")
          ELSE /\ calls' = Done(c, "error")
               /\ UNCHANGED <<products, profiles, loyalty, approveOk, soldWrites, audit>>
  /\ UNCHANGED <<hasPixDetails, payments, now, cache, promotions, promoCache>>

\* ---- rejectPayment (pix.js 615-698)

RejectBlocked(status) == status \in {"COMPLETED", "REJECTED"}

RejectFind(c, pid, reason, adminId) ==
  /\ Free(c)
  /\ calls' =
       IF ~PaymentExists(pid) \/ RejectBlocked(payments[pid].status)
         THEN [calls EXCEPT ![c] = [Idle EXCEPT !.op = "reject", !.pid = pid, !.who = adminId,
                                      !.reason = reason, !.pc = "done", !.result = "fail"]]
         ELSE [calls EXCEPT ![c] = [Idle EXCEPT !.op = "reject", !.pid = pid, !.who = adminId,
                                      !.reason = reason, !.pc = "save",
                                      !.seen = payments[pid].status]]
  /\ UNCHANGED <<hasPixDetails, payments, products, loyalty, profiles, now, approveOk, soldWrites, cache, audit, promotions, promoCache>>

RejectSave(c) ==
  /\ calls[c].op = "reject" /\ calls[c].pc = "save"
  /\ IF ValidStatus("REJECTED")
       THEN /\ payments' = [payments EXCEPT ![calls[c].pid] =
                 [@ EXCEPT !.status = "REJECTED", !.rejectedAt = now,
                           !.rejectionReason = calls[c].reason, !.rejectedBy = calls[c].who]]
            /\ profiles' = profiles \cup {payments[calls[c].pid].userId}
            /\ calls' = Done(c, "success")
       ELSE /\ UNCHANGED <<payments, profiles>>
            /\ calls' = Done(c, "error")
  /\ UNCHANGED <<hasPixDetails, products, loyalty, now, approveOk, soldWrites, cache, audit, promotions, promoCache>>

\* ---- cancelPayment (pix.js 226-306)

CancelBlocked(status) == status \in {"COMPLETED", "REJECTED", "CANCELLED"}

CancelFind(c, pid, userId) ==
  /\ Free(c)
  /\ calls' =
       IF ~PaymentExists(pid) \/ payments[pid].userId # userId
            \/ CancelBlocked(payments[pid].status)
         THEN [calls EXCEPT ![c] = [Idle EXCEPT !.op = "cancel", !.pid = pid, !.who = userId,
                                      !.pc = "done", !.result = "fail"]]
         ELSE [calls EXCEPT ![c] = [Idle EXCEPT !.op = "cancel", !.pid = pid, !.who = userId,
                                      !.pc = "save", !.seen = payments[pid].status]]
  /\ UNCHANGED <<hasPixDetails, payments, products, loyalty, profiles, now, approveOk, soldWrites, cache, audit, promotions, promoCache>>

\* rejectedAt / rejectionReason stand for approvalInfo.rejectedAt /
\* approvalInfo.rejectionReason under the nested model
CancelSave(c) ==
  /\ calls[c].op = "cancel" /\ calls[c].pc = "save"
  /\ IF ValidStatus("CANCELLED")
       THEN /\ payments' = [payments EXCEPT ![calls[c].pid] =
                 [@ EXCEPT !.status = "CANCELLED", !.rejectedAt = now,
                           !.rejectionReason = "Cancelado pelo usuario"]]
            /\ calls' = Done(c, "success")
       ELSE /\ payments' = payments
            /\ calls' = Done(c, "error")
  /\ UNCHANGED <<hasPixDetails, products, loyalty, profiles, now, approveOk, soldWrites, cache, audit, promotions, promoCache>>

\* ---- checkPaymentStatus (pix.js 172-218)

\* the expiry test with the deadline itself counted as expired
ExpiredAtDeadline(pay) == pay.status = "PENDING" /\ now >= pay.expiresAt

Expired(pay) == pay.status = "PENDING" /\ now > pay.expiresAt

CheckFind(c, pid) ==
  /\ Free(c)
  /\ calls' =
       IF ~PaymentExists(pid)
         THEN [calls EXCEPT ![c] = [Idle EXCEPT !.op = "check", !.pid = pid,
                                      !.pc = "done", !.result = "fail"]]
         ELSE IF Expired(payments[pid])
           THEN [calls EXCEPT ![c] = [Idle EXCEPT !.op = "check", !.pid = pid, !.pc = "save",
                                        !.seen = payments[pid].status]]
           ELSE [calls EXCEPT ![c] = [Idle EXCEPT !.op = "check", !.pid = pid, !.pc = "done",
                                        !.result = "success", !.ret = payments[pid].status]]
  /\ UNCHANGED <<hasPixDetails, payments, products, loyalty, profiles, now, approveOk, soldWrites, cache, audit, promotions, promoCache>>

CheckSave(c) ==
  /\ calls[c].op = "check" /\ calls[c].pc = "save"
  /\ payments' = [payments EXCEPT ![calls[c].pid].status = "EXPIRED"]
  /\ calls' = [calls EXCEPT ![c] = [@ EXCEPT !.pc = "done", !.result = "success",
                                              !.ret = "EXPIRED"]]
  /\ UNCHANGED <<hasPixDetails, products, loyalty, profiles, now, approveOk, soldWrites, cache, audit, promotions, promoCache>>

\* ---- updatePaymentFromBank (pix.js 334-425)

BankStatuses == {"approved", "completed", "denied"}

BankTarget(bankStatus) ==
  IF bankStatus = "approved" \/ bankStatus = "completed" THEN "PROCESSING" ELSE "FAILED"

BankFind(c, pid, bankStatus) ==
  /\ Free(c)
  /\ calls' =
       IF ~PaymentExists(pid) \/ payments[pid].status # "PENDING"
         THEN [calls EXCEPT ![c] = [Idle EXCEPT !.op = "bank", !.pid = pid,
                                      !.pc = "done", !.result = "fail"]]
         ELSE [calls EXCEPT ![c] = [Idle EXCEPT !.op = "bank", !.pid = pid, !.pc = "save",
                                      !.reason = BankTarget(bankStatus),
                                      !.seen = payments[pid].status]]
  /\ UNCHANGED <<hasPixDetails, payments, products, loyalty, profiles, now, approveOk, soldWrites, cache, audit, promotions, promoCache>>

BankSave(c) ==
  /\ calls[c].op = "bank" /\ calls[c].pc = "save"
  /\ LET target == calls[c].reason
     IN IF ValidStatus(target)
          THEN /\ payments' = [payments EXCEPT ![calls[c].pid] =
                    IF target = "FAILED"
                      THEN [@ EXCEPT !.status = "FAILED", !.rejectedAt = now,
                                     !.rejectionReason = "Rejeitado pelo banco"]
                      ELSE [@ EXCEPT !.status = "PROCESSING"]]
               /\ calls' = [calls EXCEPT ![c] = [@ EXCEPT !.pc = "done", !.result = "success",
                                                           !.ret = target]]
          ELSE /\ payments' = payments
               /\ calls' = Done(c, "error")
  /\ UNCHANGED <<hasPixDetails, products, loyalty, profiles, now, approveOk, soldWrites, cache, audit, promotions, promoCache>>

\* ---- the hourly expired-payments job (part_007 47-87, scripts/setup.js 322-346)

Min(S) == CHOOSE x \in S : \A y \in S : x <= y

SweepFind(c) ==
  /\ Free(c)
  /\ LET found == {pid \in 1..Len(payments) :
                     payments[pid].status = "PENDING" /\ payments[pid].expiresAt < now}
     IN calls' =
          IF found = {}
            THEN [calls EXCEPT ![c] = [Idle EXCEPT !.op = "sweep", !.pc = "done",
                                         !.result = "success"]]
            ELSE [calls EXCEPT ![c] = [Idle EXCEPT !.op = "sweep", !.pc = "loop",
                                         !.todo = found, !.seen = "PENDING"]]
  /\ UNCHANGED <<hasPixDetails, payments, products, loyalty, profiles, now, approveOk, soldWrites, cache, audit, promotions, promoCache>>

SweepSave(c) ==
  /\ calls[c].op = "sweep" /\ calls[c].pc = "loop"
  /\ LET pid == Min(calls[c].todo)
         rest == calls[c].todo \ {pid}
     IN /\ payments' = [payments EXCEPT ![pid].status = "EXPIRED"]
        /\ calls' = IF rest = {}
                      THEN [calls EXCEPT ![c] = [@ EXCEPT !.todo = {}, !.pc = "done",
                                                           !.result = "success"]]
                      ELSE [calls EXCEPT ![c].todo = rest]
  /\ UNCHANGED <<hasPixDetails, products, loyalty, profiles, now, approveOk, soldWrites, cache, audit, promotions, promoCache>>

\* ------------------------------------------------------------ products

createProduct(disponivel) ==
  /\ Len(products) < MaxProducts
  /\ products' = Append(products,
       [disponivel |-> disponivel, vendido |-> FALSE, compradoPor |-> None,
        origem |-> "MANUAL", origemId |-> None])
  /\ UNCHANGED <<hasPixDetails, payments, loyalty, profiles, calls, now, approveOk, soldWrites, cache, audit, promotions, promoCache>>

\* updateProduct(productId, {disponivel}): 'disponivel' is one of the allowedFields
updateProduct(prodId, disponivel) ==
  /\ ProductExists(prodId)
  /\ products' = [products EXCEPT ![prodId].disponivel = disponivel]
  /\ cache' = [cache EXCEPT ![prodId] = NotCached]
  /\ UNCHANGED <<hasPixDetails, payments, loyalty, profiles, calls, now, approveOk, soldWrites, audit, promotions, promoCache>>

markProductAsSold(prodId, userId) ==
  /\ ProductExists(prodId)
  /\ products' = IF products[prodId].vendido THEN products
                 ELSE [products EXCEPT ![prodId] = MarkSold(@, userId)]
  /\ cache' = IF products[prodId].vendido THEN cache
              ELSE [cache EXCEPT ![prodId] = NotCached]
  /\ UNCHANGED <<hasPixDetails, payments, loyalty, profiles, calls, now, approveOk, soldWrites, audit, promotions, promoCache>>

\* syncProducts over a feed of one marketplace item
syncProducts(lztId, lztStatus) ==
  /\ LET found == {i \in 1..Len(products) :
                     products[i].origem = "LZT" /\ products[i].origemId = lztId}
     IN IF found # {}
          THEN products' = [products EXCEPT ![Min(found)].disponivel = (lztStatus = "available")]
          ELSE /\ Len(products) < MaxProducts
               /\ products' = Append(products,
                    [disponivel |-> (lztStatus = "available"), vendido |-> FALSE,
                     compradoPor |-> None, origem |-> "LZT", origemId |-> lztId])
  /\ UNCHANGED <<hasPixDetails, payments, loyalty, profiles, calls, now, approveOk, soldWrites, cache, audit, promotions, promoCache>>

Tick ==
  /\ now < MaxTime
  /\ now' = now + 1
  /\ promoCache' = NoList
  /\ UNCHANGED <<hasPixDetails, payments, products, loyalty, profiles, calls, approveOk, soldWrites, cache, audit, promotions>>

Return(c) ==
  /\ calls[c].pc = "done"
  /\ calls' = [calls EXCEPT ![c] = Idle]
  /\ UNCHANGED <<hasPixDetails, payments, products, loyalty, profiles, now, approveOk, soldWrites, cache, audit, promotions, promoCache>>

\* the payment lifecycle
Next ==
  \/ \E u \in Users, p \in ProductIds \cup {NoSuchProduct}, a \in Amounts :
       Len(payments) < MaxPayments /\ Referable(p) /\ createPayment(u, p, a)
  \/ \E c \in Calls, pid \in PaymentIds, a \in Admins : ApproveFind(c, pid, a)
  \/ \E c \in Calls : ApproveProduct(c)
  \/ \E c \in Calls, ok \in BOOLEAN : ApproveSavePayment(c, ok)
  \/ \E c \in Calls, ok \in BOOLEAN : ApproveSaveProduct(c, ok)
  \/ \E c \in Calls, pid \in PaymentIds, r \in Reasons, a \in Admins : RejectFind(c, pid, r, a)
  \/ \E c \in Calls : RejectSave(c)
  \/ \E c \in Calls, pid \in PaymentIds, u \in Users : CancelFind(c, pid, u)
  \/ \E c \in Calls : CancelSave(c)
  \/ \E c \in Calls, pid \in PaymentIds : CheckFind(c, pid)
  \/ \E c \in Calls : CheckSave(c)
  \/ \E c \in Calls, pid \in PaymentIds, b \in BankStatuses : BankFind(c, pid, b)
  \/ \E c \in Calls : BankSave(c)
  \/ \E c \in Calls : SweepFind(c)
  \/ \E c \in Calls : SweepSave(c)
  \/ \E d \in BOOLEAN : createProduct(d)
  \/ Tick
  \/ \E c \in Calls : Return(c)

Spec == Init /\ [][Next]_vars

\* the catalog: product operations, checkout and approval
NextCatalog ==
  \/ \E u \in Users, p \in ProductIds \cup {NoSuchProduct}, a \in Amounts :
       Len(payments) < MaxPayments /\ Referable(p) /\ createPayment(u, p, a)
  \/ \E c \in Calls, pid \in PaymentIds, a \in Admins : ApproveFind(c, pid, a)
  \/ \E c \in Calls : ApproveProduct(c)
  \/ \E c \in Calls, ok \in BOOLEAN : ApproveSavePayment(c, ok)
  \/ \E c \in Calls, ok \in BOOLEAN : ApproveSaveProduct(c, ok)
  \/ \E d \in BOOLEAN : createProduct(d)
  \/ \E p \in ProductIds, d \in BOOLEAN : updateProduct(p, d)
  \/ \E p \in ProductIds, u \in Users : markProductAsSold(p, u)
  \/ \E i \in LztIds, st \in LztStatuses : syncProducts(i, st)
  \/ \E c \in Calls : Return(c)

SpecCatalog == Init /\ [][NextCatalog]_vars

\* concurrent approvals of several payments
NextApprove ==
  \/ \E u \in Users, p \in ProductIds \cup {NoSuchProduct}, a \in Amounts :
       Len(payments) < MaxCheckouts /\ Referable(p) /\ createPayment(u, p, a)
  \/ \E c \in Calls, pid \in PaymentIds, a \in Admins : ApproveFind(c, pid, a)
  \/ \E c \in Calls : ApproveProduct(c)
  \/ \E c \in Calls, ok \in BOOLEAN : ApproveSavePayment(c, ok)
  \/ \E c \in Calls, ok \in BOOLEAN : ApproveSaveProduct(c, ok)
  \/ \E d \in BOOLEAN : createProduct(d)
  \/ \E c \in Calls : Return(c)

SpecApprove == Init /\ [][NextApprove]_vars

\* ---- the /comprar command (commands/user/comprar.js 23-100)

RiskLevels == {"low", "high"}

\* getProductById (admin.js 1533-1561): the cached copy if the key is live, else the
\* stored document, which is then cached for CACHE_TTL
CheckoutFind(c, userId, prodId) ==
  /\ Free(c)
  /\ IF ~ProductExists(prodId)
       THEN /\ calls' = [calls EXCEPT ![c] = [Idle EXCEPT !.op = "checkout", !.who = userId,
                                                !.pid = prodId, !.pc = "done",
                                                !.result = "fail"]]
            /\ cache' = cache
       ELSE LET produto == IF cache[prodId].hit
                             THEN cache[prodId]
                             ELSE [hit |-> TRUE, disponivel |-> products[prodId].disponivel,
                                   vendido |-> products[prodId].vendido]
            IN /\ cache' = [cache EXCEPT ![prodId] = produto]
               /\ calls' = [calls EXCEPT ![c] =
                    [Idle EXCEPT !.op = "checkout", !.who = userId, !.pid = prodId,
                                 !.pc = IF ProductUnavailable(produto) THEN "done" ELSE "create",
                                 !.result = IF ProductUnavailable(produto) THEN "fail" ELSE None]]
  /\ UNCHANGED <<hasPixDetails, payments, products, loyalty, profiles, now, approveOk, soldWrites, audit, promotions, promoCache>>

\* the rest of the command: fraud check, createPayment, recordActivity
CheckoutCreate(c, risk, amount) ==
  /\ calls[c].op = "checkout" /\ calls[c].pc = "create"
  /\ IF risk = "high"
       THEN /\ calls' = Done(c, "fail")
            /\ UNCHANGED <<payments, profiles>>
       ELSE /\ Len(payments) < MaxCheckouts
            /\ payments' = Append(payments,
                 [userId |-> calls[c].who, productId |-> calls[c].pid, amount |-> amount,
                  status |-> "PENDING", expiresAt |-> now + expiration,
                  approvedBy |-> None, deliveryData |-> FALSE,
                  rejectedAt |-> NoTime, rejectionReason |-> None, rejectedBy |-> None])
            /\ profiles' = profiles \cup {calls[c].who}
            /\ calls' = Done(c, "success")
  /\ UNCHANGED <<hasPixDetails, products, loyalty, now, approveOk, soldWrites, cache, audit, promotions, promoCache>>

\* the TTL of a cached product runs out
CacheExpire(prodId) ==
  /\ cache[prodId].hit
  /\ cache' = [cache EXCEPT ![prodId] = NotCached]
  /\ UNCHANGED <<hasPixDetails, payments, products, loyalty, profiles, calls, now, approveOk, soldWrites, audit, promotions, promoCache>>

NextCheckout ==
  \/ \E d \in BOOLEAN : createProduct(d)
  \/ \E c \in Calls, u \in Users, p \in ProductIds \cup {NoSuchProduct} : CheckoutFind(c, u, p)
  \/ \E c \in Calls, r \in RiskLevels, a \in Amounts : CheckoutCreate(c, r, a)
  \/ \E p \in ProductIds : CacheExpire(p)
  \/ \E c \in Calls, pid \in PaymentIds, a \in Admins : ApproveFind(c, pid, a)
  \/ \E c \in Calls : ApproveProduct(c)
  \/ \E c \in Calls, ok \in BOOLEAN : ApproveSavePayment(c, ok)
  \/ \E c \in Calls, ok \in BOOLEAN : ApproveSaveProduct(c, ok)
  \/ \E c \in Calls : Return(c)

SpecCheckout == Init /\ [][NextCheckout]_vars

\* ---- getPendingApprovals (pix.js 704-718)

Max(S) == CHOOSE x \in S : \A y \in S : x >= y

RECURSIVE NewestFirst(_)
\* sort({ createdAt: -1 }): payment ids in the order newest first; _id grows with
\* the creation time
NewestFirst(S) ==
  IF S = {} THEN <<>> ELSE <<Max(S)>> \o NewestFirst(S \ {Max(S)})

\* the list getPendingApprovals returns
getPendingApprovals ==
  NewestFirst({pid \in 1..Len(payments) :
                 payments[pid].status = "PENDING" /\ payments[pid].expiresAt > now})

\* The returned list is kept in the call as the set of its <<position, id>> pairs.
GetPendingApprovals(c) ==
  /\ Free(c)
  /\ calls' = [calls EXCEPT ![c] =
                 [Idle EXCEPT !.op = "pendingApprovals", !.pc = "done", !.result = "success",
                              !.todo = {<<k, getPendingApprovals[k]>> :
                                          k \in 1..Len(getPendingApprovals)}]]
  /\ UNCHANGED <<hasPixDetails, payments, products, loyalty, profiles, now, approveOk, soldWrites, cache, audit, promotions, promoCache>>

NextList ==
  \/ \E u \in Users, a \in Amounts :
       Len(payments) < MaxCheckouts /\ createPayment(u, NoSuchProduct, a)
  \/ \E c \in Calls, pid \in PaymentIds, b \in BankStatuses : BankFind(c, pid, b)
  \/ \E c \in Calls : BankSave(c)
  \/ \E c \in Calls, pid \in PaymentIds : CheckFind(c, pid)
  \/ \E c \in Calls : CheckSave(c)
  \/ \E c \in Calls : GetPendingApprovals(c)
  \/ Tick
  \/ \E c \in Calls : Return(c)

SpecList == Init /\ [][NextList]_vars

\* ---------------------------------------------------- the loyalty service
\* The loyalty handlers are run one at a time by a caller that takes each
\* call's result before it makes the next call.

NoCallPending == \A c \in Calls : calls[c].pc = "idle"

\* a transaction may still be appended to the account
Room(userId, n) == Len(loyalty[userId].transactions) + n <= MaxTx

\* userService.recordActivity creates the profile of a user that has none
recordActivity(userId) ==
  /\ userId \notin profiles
  /\ profiles' = profiles \cup {userId}
  /\ UNCHANGED <<hasPixDetails, payments, products, loyalty, calls, now, approveOk, soldWrites, cache, audit, promotions, promoCache>>

AddPoints(c, userId, points) ==
  /\ Free(c) /\ NoCallPending /\ Room(userId, 1)
  /\ loyalty' = addPoints(loyalty, profiles, userId, points, "BONUS", NoPayment)
  /\ calls' = [calls EXCEPT ![c] =
                 [Idle EXCEPT !.op = "addPoints", !.pc = "done", !.who = userId, !.pid = points,
                              !.reason = addPointsMessage(loyalty, profiles, userId, points),
                              !.result = IF addPointsOk(loyalty, profiles, userId, points)
                                           THEN "success" ELSE "fail"]]
  /\ audit' = IF addPointsOk(loyalty, profiles, userId, points)
                THEN log(audit, LogData("LOYALTY_POINTS_ADDED", "MARKETING", "INFO", "SUCCESS"))
                ELSE audit
  /\ UNCHANGED <<hasPixDetails, payments, products, profiles, now, approveOk, soldWrites, cache, promotions, promoCache>>

UsePoints(c, userId, points) ==
  /\ Free(c) /\ NoCallPending /\ Room(userId, 1)
  /\ loyalty' = usePoints(loyalty, userId, points, "DISCOUNT")
  /\ calls' = [calls EXCEPT ![c] =
                 [Idle EXCEPT !.op = "usePoints", !.pc = "done", !.who = userId, !.pid = points,
                              !.reason = usePointsMessage(loyalty, userId, points),
                              !.result = IF usePointsOk(loyalty, userId, points)
                                           THEN "success" ELSE "fail"]]
  /\ audit' = IF usePointsOk(loyalty, userId, points)
                THEN log(audit, LogData("LOYALTY_POINTS_USED", "MARKETING", "INFO", "SUCCESS"))
                ELSE audit
  /\ UNCHANGED <<hasPixDetails, payments, products, profiles, now, approveOk, soldWrites, cache, promotions, promoCache>>

\* getUserPoints (logger.js 852-904): runs the expiry sweep on the account it found
GetUserPoints(c, userId) ==
  /\ Free(c) /\ NoCallPending
  /\ loyalty' = IF loyalty[userId].exists
                  THEN [loyalty EXCEPT ![userId] = _processExpiredPoints(@)]
                  ELSE loyalty
  /\ calls' = [calls EXCEPT ![c] =
                 [Idle EXCEPT !.op = "getUserPoints", !.pc = "done", !.who = userId,
                              !.result = "success"]]
  /\ UNCHANGED <<hasPixDetails, payments, products, profiles, now, approveOk, soldWrites, cache, audit, promotions, promoCache>>

\* config.marketing.loyaltyPoints.expirationDays days pass
PassDays ==
  /\ now < MaxPeriods * expirationDays * UnitsPerDay
  /\ now' = now + expirationDays * UnitsPerDay
  /\ UNCHANGED <<hasPixDetails, payments, products, loyalty, profiles, calls, approveOk, soldWrites, cache, audit, promotions, promoCache>>

LoyaltyUsers == {"u1"}

NextLoyalty ==
  \/ \E u \in LoyaltyUsers : recordActivity(u)
  \/ \E c \in Calls, u \in LoyaltyUsers, p \in AddAmounts : AddPoints(c, u, p)
  \/ \E c \in Calls, u \in LoyaltyUsers, p \in UseAmounts : UsePoints(c, u, p)
  \/ \E c \in Calls, u \in LoyaltyUsers : GetUserPoints(c, u)
  \/ PassDays
  \/ \E c \in Calls : Return(c)

SpecLoyalty == Init /\ [][NextLoyalty]_vars

\* the two expiry sweeps side by side: loyalty accounts and payments
NextSweeps ==
  \/ \E u \in LoyaltyUsers : recordActivity(u)
  \/ \E c \in Calls, u \in LoyaltyUsers, p \in {500} : AddPoints(c, u, p)
  \/ \E c \in Calls, u \in LoyaltyUsers, p \in {400} : UsePoints(c, u, p)
  \/ \E c \in Calls, u \in LoyaltyUsers : GetUserPoints(c, u)
  \/ PassDays
  \/ \E u \in LoyaltyUsers, a \in Amounts :
       Len(payments) < MaxCheckouts /\ createPayment(u, NoSuchProduct, a)
  \/ \E c \in Calls : SweepFind(c)
  \/ \E c \in Calls : SweepSave(c)
  \/ \E c \in Calls : Return(c)

SpecSweeps == Init /\ [][NextSweeps]_vars


\* ------------------------------------------------------------- promotions

\* what createPromotion leaves a promotion with no product and no category list
NoPromoData == [tipo |-> "flash", desconto |-> discountMin, duracao |-> 1,
                produtos |-> {}, categorias |-> {}]

PromotionExists(id) == id \in 1..Len(promotions)

\* the value of an optional field that is present
The(field) == CHOOSE v \in field : TRUE

\* ---- createPromotion (logger.js 288-372)

\* the three validations of createPromotion: discount limits, duration, type
createPromotionRejects(promoData) ==
  \/ promoData.desconto < discountMin \/ promoData.desconto > discountMax
  \/ promoData.duracao = 0 \/ promoData.duracao <= 0
  \/ promoData.tipo \notin promotionTypes

\* new Promotion({...}) with dataInicio = new Date()
NewPromotion(promoData) ==
  [tipo |-> promoData.tipo, desconto |-> promoData.desconto,
   dataInicio |-> now, dataFim |-> now + promoData.duracao * UnitsPerHour,
   duracao |-> promoData.duracao, ativa |-> TRUE,
   produtos |-> promoData.produtos, categorias |-> promoData.categorias]

CreatePromotion(c, promoData) ==
  /\ Free(c)
  /\ IF createPromotionRejects(promoData)
       THEN /\ calls' = [calls EXCEPT ![c] =
                 [Idle EXCEPT !.op = "createPromotion", !.pc = "done", !.arg = promoData,
                              !.result = "fail"]]
            /\ UNCHANGED <<promotions, promoCache, audit>>
       ELSE /\ promotions' = Append(promotions, NewPromotion(promoData))
            /\ promoCache' = NoList
            /\ audit' = log(audit, LogData("PROMOTION_CREATED", "MARKETING", "INFO", "SUCCESS"))
            /\ calls' = [calls EXCEPT ![c] =
                 [Idle EXCEPT !.op = "createPromotion", !.pc = "done", !.arg = promoData,
                              !.pid = Len(promotions) + 1, !.result = "success"]]
  /\ UNCHANGED <<hasPixDetails, payments, products, loyalty, profiles, now, approveOk, soldWrites, cache>>

\* ---- updatePromotion (logger.js 381-454)

\* the allowed fields present in updateData copied onto the promotion, then dataFim
\* recomputed if (updateData.dataInicio || updateData.duracao)
ApplyUpdate(promotion, updateData) ==
  LET copied == [promotion EXCEPT
                   !.desconto = IF updateData.desconto = {} THEN @ ELSE The(updateData.desconto),
                   !.duracao = IF updateData.duracao = {} THEN @ ELSE The(updateData.duracao),
                   !.ativa = IF updateData.ativa = {} THEN @ ELSE The(updateData.ativa)]
      truthy == updateData.duracao # {} /\ updateData.duracao # {0}
  IN [copied EXCEPT !.dataFim = IF truthy THEN copied.dataInicio + copied.duracao * UnitsPerHour
                                ELSE @]

\* updatePromotion validates the discount of the updated promotion, nothing else
updatePromotionRejects(promoId, updateData) ==
  \/ ~PromotionExists(promoId)
  \/ ApplyUpdate(promotions[promoId], updateData).desconto < discountMin
  \/ ApplyUpdate(promotions[promoId], updateData).desconto > discountMax

UpdatePromotion(c, promoId, updateData) ==
  /\ Free(c)
  /\ IF updatePromotionRejects(promoId, updateData)
       THEN /\ calls' = [calls EXCEPT ![c] =
                 [Idle EXCEPT !.op = "updatePromotion", !.pc = "done", !.pid = promoId,
                              !.arg = updateData, !.result = "fail"]]
            /\ UNCHANGED <<promotions, promoCache, audit>>
       ELSE /\ promotions' = [promotions EXCEPT ![promoId] = ApplyUpdate(@, updateData)]
            /\ promoCache' = NoList
            /\ audit' = log(audit, LogData("PROMOTION_UPDATED", "MARKETING", "INFO", "SUCCESS"))
            /\ calls' = [calls EXCEPT ![c] =
                 [Idle EXCEPT !.op = "updatePromotion", !.pc = "done", !.pid = promoId,
                              !.arg = updateData, !.result = "success"]]
  /\ UNCHANGED <<hasPixDetails, payments, products, loyalty, profiles, now, approveOk, soldWrites, cache>>

\* ---- endPromotion (logger.js 462-517)

\* endPromotion that ends a promotion whether it is active or not
endPromotionRejectsMissing(promoId) == ~PromotionExists(promoId)

\* the two early returns of endPromotion
endPromotionRejects(promoId) == ~PromotionExists(promoId) \/ ~promotions[promoId].ativa

\* the message of the result endPromotion returns
endPromotionMessage(promoId) ==
  IF ~PromotionExists(promoId) THEN "Promoção não encontrada"
  ELSE IF ~promotions[promoId].ativa THEN "Promoção já está inativa"
  ELSE None

EndPromotion(c, promoId, adminId) ==
  /\ Free(c)
  /\ IF endPromotionRejects(promoId)
       THEN /\ calls' = [calls EXCEPT ![c] =
                 [Idle EXCEPT !.op = "endPromotion", !.pc = "done", !.pid = promoId,
                              !.who = adminId, !.reason = endPromotionMessage(promoId),
                              !.result = "fail"]]
            /\ UNCHANGED <<promotions, promoCache, audit>>
       ELSE /\ promotions' = [promotions EXCEPT ![promoId] =
                                [@ EXCEPT !.ativa = FALSE, !.dataFim = now]]
            /\ promoCache' = NoList
            /\ audit' = log(audit, LogData("PROMOTION_ENDED", "MARKETING", "INFO", "SUCCESS"))
            /\ calls' = [calls EXCEPT ![c] =
                 [Idle EXCEPT !.op = "endPromotion", !.pc = "done", !.pid = promoId,
                              !.who = adminId, !.result = "success"]]
  /\ UNCHANGED <<hasPixDetails, payments, products, loyalty, profiles, now, approveOk, soldWrites, cache>>

\* the validation inputs: a discount on either side of each limit, a zero and a
\* positive duration, a configured and an unknown type
CreateInputs ==
  {[NoPromoData EXCEPT !.desconto = d, !.duracao = h, !.tipo = t] :
     d \in {discountMin - 1, discountMin, discountMax, discountMax + 1},
     h \in {0, 1}, t \in {"flash", "relampago"}}

UpdateInputs ==
  [desconto : {{}, {discountMin - 1}, {discountMax}}, duracao : {{}, {0}, {2}},
   ativa : {{}}]

\* the administration of promotions, one command at a time
NextPromo ==
  \/ \E c \in Calls, promoData \in CreateInputs :
       NoCallPending /\ Len(promotions) < MaxPromos /\ CreatePromotion(c, promoData)
  \/ \E c \in Calls, id \in 1..MaxPromos, updateData \in UpdateInputs :
       NoCallPending /\ UpdatePromotion(c, id, updateData)
  \/ \E c \in Calls, id \in 1..MaxPromos, a \in Admins :
       NoCallPending /\ EndPromotion(c, id, a)
  \/ Tick
  \/ \E c \in Calls : Return(c)

SpecPromo == Init /\ [][NextPromo]_vars

\* ---- getActivePromotions (logger.js 523-548)

\* the filter of Promotion.find: ativa, dataInicio <= now, dataFim > now
Listed(promotion) ==
  promotion.ativa /\ promotion.dataInicio <= now /\ promotion.dataFim > now

ListedIds == {id \in 1..Len(promotions) : Listed(promotions[id])}

\* a promotion document as the returned list holds it
Doc(id) ==
  [id |-> id, desconto |-> promotions[id].desconto, dataFim |-> promotions[id].dataFim,
   produtos |-> promotions[id].produtos, categorias |-> promotions[id].categorias]

\* the lists Promotion.find(...).sort({dataFim: 1}) can return: the listed promotions
\* by ascending dataFim, promotions with the same dataFim in any order
FindActive ==
  LET n == Cardinality(ListedIds)
      orders == {f \in [1..n -> ListedIds] :
                   /\ \A i \in 1..n, j \in 1..n : i # j => f[i] # f[j]
                   /\ \A i \in 1..n, j \in 1..n :
                        i < j => promotions[f[i]].dataFim <= promotions[f[j]].dataFim}
  IN {[i \in 1..n |-> Doc(f[i])] : f \in orders}

\* ---- getPromotionalPrice (logger.js 557-634)

\* no promotion (promotion: null in the result)
NoPromotion == 0

\* the two continue statements of the loop
Applies(promo, productId, productType) ==
  IF promo.produtos # {} THEN productId \in promo.produtos
  ELSE IF promo.categorias # {} THEN productType \in promo.categorias
  ELSE TRUE

\* the comparison that lets a later promotion with the same discount win
BeatsOrTies(desconto, highestDiscount) == desconto >= highestDiscount

\* if (promo.desconto > highestDiscount)
Beats(desconto, highestDiscount) == desconto > highestDiscount

RECURSIVE BestPromotion(_, _, _, _, _)
\* the loop over activePromotions from position i on; best is the position of
\* bestPromotion so far, NoPromotion while it is null
BestPromotion(list, i, best, productId, productType) ==
  IF i > Len(list) THEN best
  ELSE LET highestDiscount == IF best = NoPromotion THEN 0 ELSE list[best].desconto
       IN IF Applies(list[i], productId, productType)
              /\ Beats(list[i].desconto, highestDiscount)
            THEN BestPromotion(list, i + 1, i, productId, productType)
            ELSE BestPromotion(list, i + 1, best, productId, productType)

\* the (price in cents, discount in percent) pairs of PriceInputs and the configured
\* limits for which price * (100 - discount) / 100 ends in half a cent and the double
\* (originalPrice * (1 - discount)) * 100 lies below it:
\* (59.9 * (1 - 0.05)) * 100 evaluates to 5690.499999999999
BelowHalf == {<<5990, 5>>}

\* Math.round((originalPrice * (1 - discount)) * 100), prices in cents: the double
\* product differs from the exact value by less than 1e-9, so Math.round yields the
\* nearest integer, and at an exact half the side the double falls on
discountedCents(originalPrice, desconto) ==
  LET exact == originalPrice * (100 - desconto)
      whole == exact \div 100
      rest == exact % 100
  IN IF rest > 50 \/ (rest = 50 /\ <<originalPrice, desconto>> \notin BelowHalf)
       THEN whole + 1
       ELSE whole

getPromotionalPrice(list, productId, originalPrice, productType) ==
  LET best == BestPromotion(list, 1, NoPromotion, productId, productType)
  IN IF best = NoPromotion
       THEN [hasDiscount |-> FALSE, discountedPrice |-> originalPrice,
             discountPercentage |-> 0, promotion |-> NoPromotion]
       ELSE [hasDiscount |-> TRUE,
             discountedPrice |-> discountedCents(originalPrice, list[best].desconto),
             discountPercentage |-> list[best].desconto, promotion |-> list[best].id]

\* getActivePromotions inside getPromotionalPrice: the cached list when there is
\* one, else a list read from the store and cached; seen is activePromotions
GetPromotionalPrice(c, productId, originalPrice, productType) ==
  /\ Free(c)
  /\ \E list \in (IF promoCache.hit THEN {promoCache.list} ELSE FindActive) :
       /\ promoCache' = [hit |-> TRUE, list |-> list]
       /\ calls' = [calls EXCEPT ![c] =
            [Idle EXCEPT !.op = "promotionalPrice", !.pc = "done", !.seen = list,
                         !.arg = [productId |-> productId, originalPrice |-> originalPrice,
                                  productType |-> productType],
                         !.ret = getPromotionalPrice(list, productId, originalPrice,
                                                     productType),
                         !.result = "success"]]
  /\ UNCHANGED <<hasPixDetails, payments, products, loyalty, profiles, now, approveOk, soldWrites, cache, audit, promotions>>

\* promotions for all products, for product 1, for the category steam, for both
PriceInputs ==
  {[NoPromoData EXCEPT !.desconto = d, !.produtos = ps, !.categorias = cs] :
     d \in {5, 10, 20}, ps \in {{}, {1}}, cs \in {{}, {"steam"}}}

\* prices in cents: 59.90 and 100.00
Prices == {5990, 10000}
ProductTypes == {"steam", "valorant"}

\* pricing of products under the promotions created
NextPrice ==
  \/ \E c \in Calls, promoData \in PriceInputs :
       NoCallPending /\ Len(promotions) < MaxListed /\ CreatePromotion(c, promoData)
  \/ \E c \in Calls, id \in {1, 2}, price \in Prices, type \in ProductTypes :
       NoCallPending /\ GetPromotionalPrice(c, id, price, type)
  \/ \E c \in Calls, id \in 1..MaxListed, a \in {"admin1"} :
       NoCallPending /\ EndPromotion(c, id, a)
  \/ \E c \in Calls : Return(c)

SpecPrice == Init /\ [][NextPrice]_vars

\* ---- getActivePromotions as a handler of its own (the promotion listings)

\* cache.get and, on a miss, Promotion.find: a hit returns the cached list; on a miss
\* ret is the list read from the store, which cache.set has still to write
GetActiveFind(c) ==
  /\ Free(c)
  /\ IF promoCache.hit
       THEN calls' = [calls EXCEPT ![c] =
              [Idle EXCEPT !.op = "activePromotions", !.pc = "done", !.seen = "cache",
                           !.ret = promoCache.list, !.result = "success"]]
       ELSE \E list \in FindActive :
              calls' = [calls EXCEPT ![c] =
                [Idle EXCEPT !.op = "activePromotions", !.pc = "set", !.seen = "store",
                             !.ret = list]]
  /\ UNCHANGED <<hasPixDetails, payments, products, loyalty, profiles, now, approveOk, soldWrites, cache, audit, promotions, promoCache>>

\* await cache.set(CACHE_KEY_ACTIVE_PROMOS, promotions, CACHE_TTL); return promotions
GetActiveSet(c) ==
  /\ calls[c].op = "activePromotions" /\ calls[c].pc = "set"
  /\ promoCache' = [hit |-> TRUE, list |-> calls[c].ret]
  /\ calls' = Done(c, "success")
  /\ UNCHANGED <<hasPixDetails, payments, products, loyalty, profiles, now, approveOk, soldWrites, cache, audit, promotions>>

\* the cached list expires CACHE_TTL (300 s) after cache.set
PromoCacheExpire ==
  /\ promoCache.hit
  /\ promoCache' = NoList
  /\ UNCHANGED <<hasPixDetails, payments, products, loyalty, profiles, calls, now, approveOk, soldWrites, cache, audit, promotions>>

\* promotions of one and of two hours for all products
ListingInputs == {[NoPromoData EXCEPT !.desconto = 10, !.duracao = h] : h \in {1, 2}}

\* listings of the active promotions while promotions are created and ended
NextActive ==
  \/ \E c \in Calls, promoData \in ListingInputs :
       Len(promotions) < MaxListed /\ CreatePromotion(c, promoData)
  \/ \E c \in Calls, id \in 1..MaxListed, a \in {"admin1"} : EndPromotion(c, id, a)
  \/ \E c \in Calls : GetActiveFind(c)
  \/ \E c \in Calls : GetActiveSet(c)
  \/ PromoCacheExpire
  \/ Tick
  \/ \E c \in Calls : Return(c)

SpecActive == Init /\ [][NextActive]_vars

\* ------------------------------------------------------------- claims

Terminal == {"COMPLETED", "REJECTED", "EXPIRED", "CANCELLED"}

\* the product of payment pid is sold to the buyer of pid
SoldTo(pid) ==
  /\ ProductExists(payments[pid].productId)
  /\ products[payments[pid].productId].vendido
  /\ ~products[payments[pid].productId].disponivel
  /\ products[payments[pid].productId].compradoPor = payments[pid].userId

\* no approvePayment call on pid is between its first read and its return
Quiescent(pid) ==
  \A c \in Calls : ~(calls[c].op = "approve" /\ calls[c].pid = pid /\ calls[c].pc # "done")

\* the PURCHASE transactions linked to payment pid, over all accounts
PurchaseTxs(pid) ==
  {<<u, i>> \in Users \X (1..(MaxCalls + MaxCheckouts)) :
     /\ i <= Len(loyalty[u].transactions)
     /\ loyalty[u].transactions[i].reason = "PURCHASE"
     /\ loyalty[u].transactions[i].relatedPaymentId = pid}

\* C1: once a payment's status is COMPLETED, REJECTED, EXPIRED or CANCELLED, no later
\* call (a call that read the payment in that terminal status) changes the status.
C1_TerminalPermanent ==
  [][\A c \in Calls :
       (calls[c].seen \in Terminal /\ calls'[c] # calls[c])
         => payments'[calls[c].pid].status = payments[calls[c].pid].status]_vars

\* C2: for every payment at most one approvePayment call returns success, and its
\* product is saved as sold at most once.
C2_NoDoubleSell ==
  /\ \A pid \in PaymentIds : approveOk[pid] <= 1
  /\ \A prod \in ProductIds : soldWrites[prod] <= 1

\* C3: for every product at most one payment that references it is COMPLETED.
C3_OneSalePerProduct ==
  \A prod \in ProductIds :
    Cardinality({pid \in 1..Len(payments) :
                   payments[pid].productId = prod /\ payments[pid].status = "COMPLETED"}) <= 1

\* C4: whenever no approval of a payment is in progress, the payment is COMPLETED
\* if and only if its product is sold (vendido, not disponivel) to its buyer; and an
\* approvePayment that returned a failure has left the payment not COMPLETED by it.
C4_ApprovalAtomic ==
  \A pid \in 1..Len(payments) :
    Quiescent(pid) => (payments[pid].status = "COMPLETED" <=> SoldTo(pid))

\* C5: in every state, deliveryData of a payment is set if and only if its status
\* is COMPLETED.
C5_DeliveryIffCompleted ==
  \A pid \in 1..Len(payments) :
    payments[pid].deliveryData <=> payments[pid].status = "COMPLETED"

\* C6: in every state, a product with vendido = true has disponivel = false.
C6_SoldImpliesUnavailable ==
  \A prod \in 1..Len(products) : products[prod].vendido => ~products[prod].disponivel

\* C7: for every payment at most one PURCHASE point transaction linked to it exists.
C7_OnePurchaseCredit ==
  \A pid \in PaymentIds : Cardinality(PurchaseTxs(pid)) <= 1

\* C8: when approvePayment finds the product of a payment that passed the status
\* checks missing, unavailable or sold, it sets the payment to REJECTED with a
\* rejection reason, returns a failure and changes no product and no loyalty account.
C8_ForceReject ==
  [][\A c \in Calls :
       (/\ calls[c].op = "approve" /\ calls[c].pc = "product" /\ calls'[c] # calls[c]
        /\ \/ ~ProductExists(payments[calls[c].pid].productId)
           \/ ProductUnavailable(products[payments[calls[c].pid].productId]))
         => /\ payments'[calls[c].pid].status = "REJECTED"
            /\ payments'[calls[c].pid].rejectionReason # None
            /\ calls'[c].pc = "done" /\ calls'[c].result # "success"
            /\ products' = products /\ loyalty' = loyalty]_vars

\* C9: cancelPayment fails and changes nothing when the payment is missing, the
\* requester is not its buyer, or its status is COMPLETED, REJECTED or CANCELLED; in
\* every other case it sets the status to CANCELLED and returns success.
C9_Cancel ==
  [][\A c \in Calls :
       /\ (Free(c) /\ calls'[c].op = "cancel")
            => IF \/ ~PaymentExists(calls'[c].pid)
                  \/ payments[calls'[c].pid].userId # calls'[c].who
                  \/ payments[calls'[c].pid].status \in {"COMPLETED", "REJECTED", "CANCELLED"}
                 THEN /\ calls'[c].pc = "done" /\ calls'[c].result # "success"
                      /\ payments' = payments /\ products' = products /\ loyalty' = loyalty
                 ELSE calls'[c].pc = "save"
       /\ (calls[c].op = "cancel" /\ calls[c].pc = "save" /\ calls'[c] # calls[c])
            => /\ payments'[calls[c].pid].status = "CANCELLED"
               /\ calls'[c].pc = "done" /\ calls'[c].result = "success"]_vars

\* C10: rejectPayment fails and leaves the payment unchanged when its status is
\* COMPLETED or REJECTED; otherwise it sets status REJECTED with the reason, the
\* time and the admin id; in both cases the products are left unchanged.
C10_Reject ==
  [][\A c \in Calls :
       /\ (Free(c) /\ calls'[c].op = "reject" /\ PaymentExists(calls'[c].pid))
            => IF payments[calls'[c].pid].status \in {"COMPLETED", "REJECTED"}
                 THEN /\ calls'[c].pc = "done" /\ calls'[c].result # "success"
                      /\ payments' = payments /\ products' = products
                 ELSE calls'[c].pc = "save" /\ payments' = payments /\ products' = products
       /\ (calls[c].op = "reject" /\ calls[c].pc = "save" /\ calls'[c] # calls[c])
            => /\ payments'[calls[c].pid].status = "REJECTED"
               /\ payments'[calls[c].pid].rejectionReason = calls[c].reason
               /\ payments'[calls[c].pid].rejectedAt = now
               /\ payments'[calls[c].pid].rejectedBy = calls[c].who
               /\ calls'[c].pc = "done" /\ calls'[c].result = "success"
               /\ products' = products]_vars

\* C11: updatePaymentFromBank changes a payment only when its status is PENDING: an
\* approved/completed gateway result moves it to PROCESSING, any other result to
\* FAILED with a rejection reason; for every other status it returns a failure and
\* leaves the payment unchanged.
C11_BankUpdate ==
  [][\A c \in Calls :
       /\ (Free(c) /\ calls'[c].op = "bank" /\ PaymentExists(calls'[c].pid))
            => /\ payments' = payments
               /\ IF payments[calls'[c].pid].status # "PENDING"
                    THEN calls'[c].pc = "done" /\ calls'[c].result # "success"
                    ELSE calls'[c].pc = "save"
       /\ (calls[c].op = "bank" /\ calls[c].pc = "save" /\ calls'[c] # calls[c])
            => /\ payments[calls[c].pid].status = "PENDING"
               /\ payments'[calls[c].pid].status = calls[c].reason
               /\ calls[c].reason = "FAILED" => payments'[calls[c].pid].rejectionReason # None
               /\ calls'[c].pc = "done" /\ calls'[c].result = "success"]_vars

\* C12: a gateway failure is terminal: a call that finds a payment in the FAILED
\* state does not change its status, so a FAILED payment never becomes COMPLETED.
C12_FailedTerminal ==
  [][\A c \in Calls :
       (calls[c].seen = "FAILED" /\ calls'[c] # calls[c])
         => payments'[calls[c].pid].status = "FAILED"]_vars

\* C13: checkPaymentStatus moves the payment it read to EXPIRED exactly when that
\* payment is PENDING and now > expiresAt, and then returns EXPIRED; in every other
\* case it returns the status it read and changes no payment; it never changes a
\* product or a loyalty account.
C13_CheckStatus ==
  [][\A c \in Calls :
       /\ (Free(c) /\ calls'[c].op = "check" /\ PaymentExists(calls'[c].pid))
            => /\ payments' = payments /\ products' = products /\ loyalty' = loyalty
               /\ IF /\ payments[calls'[c].pid].status = "PENDING"
                     /\ now > payments[calls'[c].pid].expiresAt
                    THEN calls'[c].pc = "save"
                    ELSE /\ calls'[c].pc = "done" /\ calls'[c].result = "success"
                         /\ calls'[c].ret = payments[calls'[c].pid].status
       /\ (calls[c].op = "check" /\ calls[c].pc = "save" /\ calls'[c] # calls[c])
            => /\ payments' = [payments EXCEPT ![calls[c].pid].status = "EXPIRED"]
               /\ calls'[c].pc = "done" /\ calls'[c].result = "success"
               /\ calls'[c].ret = "EXPIRED"
               /\ products' = products /\ loyalty' = loyalty]_vars

\* a checkPaymentStatus call has expired a payment and returned EXPIRED
C13_Witness ==
  \E c \in Calls :
    /\ calls[c].op = "check" /\ calls[c].pc = "done" /\ calls[c].ret = "EXPIRED"
    /\ calls[c].seen = "PENDING"
    /\ payments[calls[c].pid].status = "EXPIRED"

\* C14: the expiry sweeps are idempotent: right after getUserPoints has run the
\* loyalty sweep on an account, a second run at the same time leaves the balance and
\* the transaction list as they are; and a payment the payment sweep has processed
\* is not selected by a second run of the sweep, so its status stays the same.
C14_SweepsIdempotent ==
  [][\A c \in Calls :
       /\ (Free(c) /\ calls'[c].op = "getUserPoints")
            => _processExpiredPoints(loyalty'[calls'[c].who]) = loyalty'[calls'[c].who]
       /\ (calls[c].op = "sweep" /\ calls[c].pc = "loop" /\ calls'[c] # calls[c])
            => \A pid \in calls[c].todo \ calls'[c].todo :
                 /\ payments'[pid].status = "EXPIRED"
                 /\ ~(payments'[pid].status = "PENDING" /\ payments'[pid].expiresAt < now')]_vars

\* getUserPoints has expired points of an account, and the payment sweep a payment
C14_Witness ==
  /\ \E c \in Calls :
       /\ calls[c].op = "getUserPoints" /\ calls[c].pc = "done"
       /\ \E i \in 1..Len(loyalty[calls[c].who].transactions) :
            loyalty[calls[c].who].transactions[i].reason = "EXPIRATION"
  /\ \E pid \in 1..Len(payments) : payments[pid].status = "EXPIRED"

\* C15: under any interleaving of checkPaymentStatus, the expired-payments job and
\* approve/cancel/reject, a payment becomes EXPIRED only from PENDING: a status that
\* another call has meanwhile stored is not overwritten with EXPIRED.
C15_ExpireOnlyPending ==
  [][\A pid \in 1..Len(payments) :
       (payments'[pid].status = "EXPIRED" /\ payments[pid].status # "EXPIRED")
         => payments[pid].status = "PENDING"]_vars

\* C16: getPendingApprovals returns exactly the payments whose status is PENDING or
\* PROCESSING and whose expiresAt is later than now, ordered newest first.
C16_PendingApprovals ==
  [][\A c \in Calls :
       (Free(c) /\ calls'[c].op = "pendingApprovals")
         => /\ {pr[2] : pr \in calls'[c].todo} =
                 {pid \in 1..Len(payments) :
                    /\ payments[pid].status \in {"PENDING", "PROCESSING"}
                    /\ payments[pid].expiresAt > now}
            /\ \A pr \in calls'[c].todo, qr \in calls'[c].todo :
                 pr[1] < qr[1] => pr[2] > qr[2]]_vars

\* C17: the checkout creates a payment only for a product that is available and
\* not sold at the moment of creation, also when the product was sold by
\* approvePayment while its cache entry is still live.
C17_CheckoutAvailable ==
  [][\A c \in Calls :
       (/\ calls[c].op = "checkout" /\ calls[c].pc = "create"
        /\ Len(payments') > Len(payments))
         => /\ products[calls[c].pid].disponivel
            /\ ~products[calls[c].pid].vendido]_vars

\* C18: the balance (totalPoints) of a loyalty account is never negative, after any
\* sequence of addPoints, usePoints and expiry sweeps.
C18_BalanceNonNegative ==
  \A u \in Users : loyalty[u].totalPoints >= 0

\* the transactions of an account whose status is ACTIVE
ActiveTxs(acc) ==
  {i \in 1..Len(acc.transactions) : acc.transactions[i].status = "ACTIVE"}

\* C19: right after getUserPoints has run its expiry sweep, the balance of the
\* account equals the sum of the amounts of its ACTIVE transactions.
C19_BalanceIsActiveSum ==
  [][\A c \in Calls :
       (Free(c) /\ calls'[c].op = "getUserPoints")
         => loyalty'[calls'[c].who].totalPoints =
              SumAmounts(loyalty'[calls'[c].who].transactions,
                         ActiveTxs(loyalty'[calls'[c].who]))]_vars

\* C20: in every reachable state the stored level is the step function of
\* lifetimePoints (>= 10000: 5, >= 5000: 4, >= 2000: 3, >= 500: 2, else 1), and no
\* step of addPoints, usePoints or the expiry sweep lowers the level.
C20_Tier ==
  /\ [](\A u \in Users :
          loyalty[u].level =
            (IF loyalty[u].lifetimePoints >= 10000 THEN 5
             ELSE IF loyalty[u].lifetimePoints >= 5000 THEN 4
             ELSE IF loyalty[u].lifetimePoints >= 2000 THEN 3
             ELSE IF loyalty[u].lifetimePoints >= 500 THEN 2
             ELSE 1))
  /\ [][\A u \in Users : loyalty'[u].level >= loyalty[u].level]_vars

\* an account at a tier threshold that has spent points and had points expire
C20_Witness ==
  \E u \in Users :
    /\ loyalty[u].lifetimePoints = 2000 /\ loyalty[u].level = 3
    /\ loyalty[u].totalPoints < 500
    /\ \E i \in 1..Len(loyalty[u].transactions) :
         loyalty[u].transactions[i].reason = "EXPIRATION"

C22_AddPoints ==
  [][\A c \in Calls :
       (Free(c) /\ calls'[c].op = "addPoints")
         => LET u == calls'[c].who
                n == calls'[c].pid
            IN IF n <= 0
                 THEN calls'[c].result = "fail" /\ loyalty' = loyalty
                 ELSE /\ calls'[c].result = "success"
                      /\ loyalty'[u].exists
                      /\ loyalty'[u].totalPoints = loyalty[u].totalPoints + n
                      /\ loyalty'[u].lifetimePoints = loyalty[u].lifetimePoints + n
                      /\ Len(loyalty'[u].transactions) = Len(loyalty[u].transactions) + 1
                      /\ loyalty'[u].transactions[Len(loyalty'[u].transactions)].amount = n
                      /\ loyalty'[u].transactions[Len(loyalty'[u].transactions)].status = "ACTIVE"
                      /\ loyalty'[u].transactions[Len(loyalty'[u].transactions)].expiresAt
                           = now + expirationDays * UnitsPerDay]_vars

\* C29: ledger conservation: in every reachable state the balance (totalPoints) of
\* a loyalty account equals the sum of the amounts of all its transactions, whatever
\* their status.
C29_LedgerConservation ==
  \A u \in Users :
    loyalty[u].totalPoints =
      SumAmounts(loyalty[u].transactions, 1..Len(loyalty[u].transactions))

\* an account with an earning that expired, a spend entry and an EXPIRATION entry
C29_Witness ==
  \E u \in Users :
    /\ \E i \in 1..Len(loyalty[u].transactions) : loyalty[u].transactions[i].status = "EXPIRED"
    /\ \E i \in 1..Len(loyalty[u].transactions) : loyalty[u].transactions[i].reason = "DISCOUNT"
    /\ \E i \in 1..Len(loyalty[u].transactions) : loyalty[u].transactions[i].reason = "EXPIRATION"

\* C23: createPromotion and updatePromotion reject, leaving the persisted promotions
\* unchanged, a discount below discountMin or above discountMax and a duration <= 0;
\* createPromotion accepts discountMin and discountMax with a configured type and a
\* positive duration; hence every promotion not yet ended has a discount within the
\* limits and dataFim = dataInicio + duracao hours.
C23_PromotionValidation ==
  [][/\ \A c \in Calls :
          (Free(c) /\ calls'[c].op = "createPromotion")
            => LET d == calls'[c].arg.desconto
                   h == calls'[c].arg.duracao
               IN /\ (d < discountMin \/ d > discountMax \/ h <= 0)
                       => (calls'[c].result = "fail" /\ promotions' = promotions)
                  /\ (/\ d \in {discountMin, discountMax} /\ h > 0
                      /\ calls'[c].arg.tipo \in promotionTypes)
                       => (calls'[c].result = "success"
                           /\ Len(promotions') = Len(promotions) + 1)
     /\ \A c \in Calls :
          (Free(c) /\ calls'[c].op = "updatePromotion")
            => LET upd == calls'[c].arg
               IN (\/ \E d \in upd.desconto : d < discountMin \/ d > discountMax
                   \/ \E h \in upd.duracao : h <= 0)
                    => (calls'[c].result = "fail" /\ promotions' = promotions)
     /\ \A id \in 1..Len(promotions') :
          promotions'[id].ativa
            => /\ promotions'[id].desconto >= discountMin
               /\ promotions'[id].desconto <= discountMax
               /\ promotions'[id].duracao > 0
               /\ promotions'[id].dataFim =
                    promotions'[id].dataInicio + promotions'[id].duracao * UnitsPerHour]_vars

\* C24: getPromotionalPrice applies the promotion with the highest discount among
\* the applicable promotions of the active list, a promotion being applicable iff its
\* product list contains the product, or its product list is empty and its category
\* list contains the product type, or both lists are empty; of promotions with the
\* same discount the first of the list wins; with no applicable promotion the result
\* has hasDiscount = false and discountedPrice = the original price.
C24_BestPromotion ==
  [][\A c \in Calls :
       (Free(c) /\ calls'[c].op = "promotionalPrice")
         => LET list == calls'[c].seen
                a == calls'[c].arg
                r == calls'[c].ret
                applicable ==
                  {i \in 1..Len(list) :
                     \/ a.productId \in list[i].produtos
                     \/ list[i].produtos = {} /\ a.productType \in list[i].categorias
                     \/ list[i].produtos = {} /\ list[i].categorias = {}}
            IN /\ promoCache.hit => list = promoCache.list
               /\ ~promoCache.hit => {list[i].id : i \in 1..Len(list)} = ListedIds
               /\ IF applicable = {}
                    THEN ~r.hasDiscount /\ r.discountedPrice = a.originalPrice
                    ELSE /\ r.hasDiscount
                         /\ \E i \in applicable :
                              /\ r.promotion = list[i].id
                              /\ r.discountPercentage = list[i].desconto
                              /\ \A j \in applicable :
                                   /\ list[j].desconto <= list[i].desconto
                                   /\ list[j].desconto = list[i].desconto => i <= j]_vars

\* a price was computed from a list whose two promotions both apply with the same
\* discount
C24_Witness ==
  \E c \in Calls :
    /\ calls[c].op = "promotionalPrice" /\ calls[c].pc = "done"
    /\ Len(calls[c].seen) = 2
    /\ calls[c].ret.hasDiscount
    /\ calls[c].seen[1].desconto = calls[c].seen[2].desconto
    /\ \A i \in 1..2 : Applies(calls[c].seen[i], calls[c].arg.productId,
                               calls[c].arg.productType)
    /\ calls[c].seen[1].produtos # calls[c].seen[2].produtos

\* C25: for every base price and every discount within the limits, discountedPrice
\* is price * (100 - discount) / 100 rounded half-up to the cent (59.90 at 10% gives
\* 53.91, 100.00 at 20% gives 80.00), and 0 <= discountedPrice <= price.
C25_PriceRounding ==
  [][\A c \in Calls :
       (Free(c) /\ calls'[c].op = "promotionalPrice" /\ calls'[c].ret.hasDiscount)
         => LET price == calls'[c].arg.originalPrice
                pct == calls'[c].ret.discountPercentage
            IN /\ calls'[c].ret.discountedPrice = (price * (100 - pct) + 50) \div 100
               /\ calls'[c].ret.discountedPrice >= 0
               /\ calls'[c].ret.discountedPrice <= price]_vars

\* C26: every getActivePromotions call, served from the cache or from the store,
\* returns exactly the promotions that are ativa with dataInicio <= now < dataFim at
\* the time the call begins, soonest dataFim first: under any interleaving of reads
\* and mutations no call returns a promotion ended or deactivated before it began.
C26_ActivePromotions ==
  [][\A c \in Calls :
       (Free(c) /\ calls'[c].op = "activePromotions")
         => LET list == calls'[c].ret
            IN /\ Len(list) = Cardinality(ListedIds)
               /\ {list[i].id : i \in 1..Len(list)} = ListedIds
               /\ \A i \in 1..Len(list) :
                    /\ promotions[list[i].id].ativa
                    /\ promotions[list[i].id].dataInicio <= now
                    /\ promotions[list[i].id].dataFim > now
               /\ \A i \in 1..Len(list), j \in 1..Len(list) :
                    i < j => list[i].dataFim <= list[j].dataFim]_vars

\* C27: endPromotion on an active promotion stores ativa = false and dataFim = now
\* and returns success; on a promotion already inactive it returns the failure
\* 'Promoção já está inativa' and changes nothing.
C27_EndPromotion ==
  [][\A c \in Calls :
       (Free(c) /\ calls'[c].op = "endPromotion" /\ PromotionExists(calls'[c].pid))
         => LET id == calls'[c].pid
            IN IF promotions[id].ativa
                 THEN /\ calls'[c].result = "success"
                      /\ promotions' = [promotions EXCEPT ![id] =
                                          [@ EXCEPT !.ativa = FALSE, !.dataFim = now]]
                 ELSE /\ calls'[c].result = "fail"
                      /\ calls'[c].reason = "Promoção já está inativa"
                      /\ promotions' = promotions]_vars

\* endPromotion was called again, later, on a promotion ended before
C27_Witness ==
  \E c \in Calls :
    /\ calls[c].op = "endPromotion" /\ calls[c].pc = "done" /\ calls[c].result = "fail"
    /\ PromotionExists(calls[c].pid)
    /\ ~promotions[calls[c].pid].ativa
    /\ promotions[calls[c].pid].dataFim < now

\* C28: in the purchase (createPayment, then approvePayment by an admin) one audit
\* entry is appended per step, in order: PAYMENT_CREATED when the payment is created,
\* then LOYALTY_POINTS_ADDED and PAYMENT_APPROVED when the approval succeeds, each
\* stored with the action, category and severity its caller passed.
C28_PurchaseAudit ==
  [][/\ Len(payments') = Len(payments) + 1
          => audit' = Append(audit, LogData("PAYMENT_CREATED", "TRANSACTION", "INFO", "SUCCESS"))
     /\ \A c \in Calls :
          (/\ calls[c].op = "approve" /\ calls[c].pc = "saveProduct"
           /\ calls'[c].result = "success")
            => audit' = audit \o
                 <<LogData("LOYALTY_POINTS_ADDED", "MARKETING", "INFO", "SUCCESS"),
                   LogData("PAYMENT_APPROVED", "TRANSACTION", "INFO", "SUCCESS")>>]_vars

\* C30: approvePayment completes a payment only while now <= expiresAt: a payment
\* stored as PENDING whose expiresAt has passed is never moved to COMPLETED and its
\* product is never marked sold.
C30_NoLateApproval ==
  [][/\ \A pid \in 1..Len(payments) :
          (payments'[pid].status = "COMPLETED" /\ payments[pid].status # "COMPLETED")
            => now <= payments[pid].expiresAt
     /\ \A c \in Calls :
          (calls[c].op = "approve" /\ calls[c].pc = "saveProduct" /\ products' # products)
            => now <= payments[calls[c].pid].expiresAt]_vars

====
